---------------------------- MODULE Spec2Model ----------------------------
(***************************************************************************)
(* Model of kytos/of_stats: the RRD store (stats.py, class RRD), the       *)
(* collectors (PortStats, FlowStats), the NApp's polling loop and reply    *)
(* dispatcher (main.py), as a state machine of threads that interleave at  *)
(* every access to shared state (files, the store lock, the controller's   *)
(* switches, the msg_out buffer).                                          *)
(*                                                                         *)
(* Python values: None is <<>>, a number n is the pair <<n, 1>> and a rate *)
(* is the pair <<delta, seconds>> (an exact fraction); an exception ends   *)
(* the operation with result.k naming its class.                           *)
(***************************************************************************)
EXTENDS Integers, Sequences, FiniteSets, TLC

VARIABLES
    now,        \* the clock, in seconds (time.time())
    dirs,       \* folders that exist under settings.DIR
    files,      \* paths of the RRD files that exist
    rrds,       \* path -> content of the RRD file
    rrd_lock,   \* settings.rrd_lock: the thread holding it, or NoThread
    th,         \* thread -> its frame (operation, arguments, position)
    ops,        \* number of operations started so far
    hist,       \* history: what the store calls did (for the properties)
    conn,       \* switch -> its connection (controller.switches)
    mirror,     \* interface/flow object of the controller -> its stats
    msg_out,    \* controller.buffers.msg_out: the request events put
    poll,       \* the frame of the NApp thread running execute()
    env         \* number of connection changes made by the transport layer

vars == <<now, dirs, files, rrds, rrd_lock, th, ops, hist, conn, mirror,
          msg_out, poll, env>>

----------------------------------------------------------------------------
(* Bounds of the model *)

MaxTicks == 3
MaxOps == 4
MaxRounds == 1
MaxEnv == 1

----------------------------------------------------------------------------
(* settings.py *)

STATS_INTERVAL == 10

(* The clock advances by a polling interval. *)
TickLen == STATS_INTERVAL
MaxTime == MaxTicks * TickLen

----------------------------------------------------------------------------
(* Python values *)

None == <<>>
Num(n) == <<n, 1>>
IsNone(x) == x = <<>>

(* Equality of two numbers (fractions) or Nones. *)
SameValue(a, b) ==
    IF IsNone(a) \/ IsNone(b) THEN IsNone(a) /\ IsNone(b)
    ELSE a[1] * b[2] = b[1] * a[2]

Threads == {"t1", "t2"}
NoThread == "none"

Switches == {"s1", "s2"}
Ports == {1, 2}
(* Flow ids (hashes), as numbers *)
FlowIds == {7}

----------------------------------------------------------------------------
(* stats.py: the RRD instances of the collectors and their data sources *)

PortDS == <<"rx_bytes", "tx_bytes", "rx_dropped", "tx_dropped",
            "rx_errors", "tx_errors">>
FlowDS == <<"packet_count", "byte_count">>
AggrDS == <<"packet_count", "byte_count", "flow_count">>
Apps == {"ports", "flows", "aggr"}

(* RRD._ds of the instance with app folder `app` *)
data_sources(app) ==
    IF app = "ports" THEN PortDS
    ELSE IF app = "flows" THEN FlowDS
    ELSE AggrDS

Range(s) == {s[i] : i \in DOMAIN s}

Indexes(app) ==
    IF app = "ports" THEN Switches \X Ports
    ELSE IF app = "flows" THEN Switches \X FlowIds
    ELSE {<<sw>> : sw \in Switches}

(* RRD.get_rrd: settings.DIR / app / folders... / '<basename>.rrd', as the
   sequence of its components; the basename is formatted to a string. *)
get_rrd(app, index) ==
    IF Len(index) = 1 THEN <<app, index[1]>>
    ELSE <<app, index[1], ToString(index[2])>>

Parent(path) == SubSeq(path, 1, Len(path) - 1)

Paths == UNION {{get_rrd(a, i) : i \in Indexes(a)} : a \in Apps}

----------------------------------------------------------------------------
(* rrdtool: the content of an RRD file and the four calls made on it.
   A file keeps its data source names, the time and values of the last
   update, and one row of rates per step of STATS_INTERVAL seconds. *)

Floor(t) == t - (t % STATS_INTERVAL)

BucketTimes == {b \in 0..(MaxTime + STATS_INTERVAL) : b % STATS_INTERVAL = 0}

NullRow(n) == [i \in 1..n |-> None]

(* A counter whose decrease is stored as the rate of a wrap (here of a
   16-bit counter) *)
get_counter_wrap(prev, cur, dt) ==
    IF dt <= 0 THEN None
    ELSE IF cur < prev THEN <<cur - prev + 65536, dt>>
    ELSE <<cur - prev, dt>>

(* DS:<name>:COUNTER:<TIMEOUT>:<MIN>:<MAX>: the rate of a counter between
   two updates. rrdtool takes a decrease for a wrap of the counter and
   stores the rate unless it is outside MIN..MAX; settings.MIN and
   settings.MAX are not in the sources, and the limits are taken to rule
   the wrapped rate out, so that a decrease gives an unknown value. *)
get_counter(prev, cur, dt) ==
    IF dt <= 0 \/ cur < prev THEN None ELSE <<cur - prev, dt>>

(* RRD._get_archives, lines 249-256: one 'RRA:AVERAGE:<XFF>:<steps>:
   <PERIOD>' for each element of the tuple of steps. The source has no
   comma between '4h' and '8h', and Python joins adjacent string literals
   into one. *)
_get_archives ==
    LET steps == <<"1m", "2m", "4m", "8m", "15m", "30m", "1h", "2h", "4h"
                   \o "8h", "12h", "1d", "2d", "3d", "6d", "10d", "15d">>
    IN [i \in DOMAIN steps |->
          [cf |-> "AVERAGE", xff |-> "XFF", steps |-> steps[i],
           rows |-> "PERIOD"]]

(* rrdtool.create(rrd, '--start', tstamp, '--step', STATS_INTERVAL, DS...,
   RRA...): a new, empty file; an existing file is overwritten. *)
rrdtool_create(ds, t) ==
    [ds |-> ds, last_up |-> t, last |-> None, rra |-> _get_archives,
     rows |-> [b \in BucketTimes |-> NullRow(Len(ds))]]

(* rrdtool.update refuses a time that is not after the last update
   (tstamp 'N' is the current time to the microsecond, hence after). *)
rrdtool_update_ok(r, tstamp) ==
    IsNone(tstamp) \/ tstamp[1] > r.last_up

(* rrdtool.update(rrd, '<tstamp>:<v1>:<v2>...'): the steps that ended
   since the last update get the rate row; the first update of a file has
   no previous values and gives an unknown (null) row. *)
rrdtool_update(r, t, vals) ==
    LET n == Len(r.ds)
        dt == t - r.last_up
        row == IF IsNone(r.last) THEN NullRow(n)
               ELSE [i \in 1..n |-> get_counter(r.last[1][i], vals[i], dt)]
    IN [r EXCEPT !.last_up = t,
                 !.last = <<vals>>,
                 !.rows = [b \in BucketTimes |->
                             IF Floor(r.last_up) < b /\ b <= Floor(t)
                             THEN row ELSE @[b]]]

(* The retention (settings.PERIOD) reaches back beyond the model's times. *)
PERIOD == MaxTime + STATS_INTERVAL

(* rrdtool.first(rrd): the time of the oldest row the file retains *)
rrdtool_first(r) == Floor(r.last_up) - PERIOD

(* rrdtool.fetch(rrd, 'AVERAGE', '--start', s, '--end', e): the rows of
   the steps in (s - s % step, e - e % step + step], as
   ((start, stop, step), ds names, rows). *)
FetchTimes(s, e) ==
    LET s0 == Floor(s)
        e0 == Floor(e) + STATS_INTERVAL
        n == (e0 - s0) \div STATS_INTERVAL
    IN [i \in 1..n |-> s0 + i * STATS_INTERVAL]

RowAt(r, b) == IF b \in BucketTimes THEN r.rows[b] ELSE NullRow(Len(r.ds))

rrdtool_fetch(r, s, e) ==
    LET ts == FetchTimes(s, e)
    IN [tstamps |-> <<Floor(s), Floor(e) + STATS_INTERVAL, STATS_INTERVAL>>,
        cols |-> r.ds,
        rows |-> [i \in DOMAIN ts |-> RowAt(r, ts[i])]]

----------------------------------------------------------------------------
(* Threads: each runs one operation at a time, a frame holding its
   arguments, its locals and its position (pc). *)

NoArg == [k |-> "none", v |-> 0]
NoFetch == [tstamps |-> <<>>, cols |-> <<>>, rows |-> <<>>]
NoResult == [k |-> "none", ret |-> <<>>]
NoEvent == [dialect |-> "none", kind |-> 0, switch |-> "s1", body |-> <<>>]

(* The REST call a thread serves (stats_api.py), if any: what the
   controller knows of the switch (whether get_switch_by_dpid finds it, its
   interfaces in the order of their port numbers, their speeds), the
   position in the list of interfaces and the response built so far. *)
NoPoints ==
    [timestamps |-> <<>>, cols |-> <<>>, data |-> <<>>, speed |-> <<>>,
     raised |-> "none"]
NoApi ==
    [kind |-> "none", known |-> FALSE, ifaces |-> <<>>,
     speed |-> [p \in Ports |-> None], j |-> 0, status |-> "none",
     points |-> NoPoints, list |-> <<>>]

Frame0 ==
    [pc |-> "idle", op |-> "none", app |-> "ports", index |-> <<"s1", 1>>,
     tstamp |-> None, ds_values |-> <<>>,
     start |-> NoArg, end |-> NoArg, n_points |-> None, res |-> None,
     fetched |-> NoFetch, min_tstamp |-> 0, result |-> NoResult,
     ev |-> NoEvent, i |-> 0, calls |-> <<>>, updates |-> <<>>,
     api |-> NoApi]

Free(t) == th[t].pc \in {"idle", "done"}

(* An operation ends: it returns (k = "ok") or raises the exception k. *)
Done(f, k, ret) == [f EXCEPT !.pc = "done", !.result = [k |-> k, ret |-> ret]]

Hist0 ==
    [created |-> [p \in Paths |-> 0],   \* rrdtool.create calls per file
     lost |-> {},                       \* files overwritten with data in them
     written |-> {},                    \* files some update call was made for
     stored |-> {},                     \* files rrdtool.update wrote a row to
     requested |-> <<>>]                \* request calls: <<switch, kind>>

(* `with settings.rrd_lock:` entered and left *)
Acquire(t) == rrd_lock = NoThread /\ rrd_lock' = t
Release(t) == rrd_lock' = NoThread

Inside(t) == th[t].pc \in {"c_in", "u_in", "first_in", "f_in"}

----------------------------------------------------------------------------
(* RRD.update(index, tstamp=None, **ds_values) *)

(* The keyword arguments of an update: the first data source gets a, the
   others b. *)
DsValues(names, first, a, b) == [n \in names |-> IF n = first THEN a ELSE b]

Counters == {0, 1}

(* The update calls tried: every pair of counter values with all data
   sources supplied and, when wide, a missing data source, an undeclared
   one, and an explicit time stamp (now, or a polling interval ago). *)
UpdateInputs(app, wide) ==
    LET ds == data_sources(app)
        D == Range(ds)
    IN {[tstamp |-> None, ds_values |-> DsValues(D, ds[1], a, b)] :
            a \in Counters, b \in Counters}
       \cup (IF wide
             THEN {[tstamp |-> None,
                    ds_values |-> DsValues(D \ {ds[Len(ds)]}, ds[1], 1, 1)],
                   [tstamp |-> None,
                    ds_values |-> DsValues(D \cup {"bogus"}, ds[1], 1, 1)],
                   [tstamp |-> <<now>>,
                    ds_values |-> DsValues(D, ds[1], 1, 1)],
                   [tstamp |-> <<now - STATS_INTERVAL>>,
                    ds_values |-> DsValues(D, ds[1], 1, 1)]}
             ELSE {})

(* The series the store's callers of the model address *)
PortKey == <<"ports", <<"s1", 1>>>>
FlowKey == <<"flows", <<"s1", 7>>>>
StoreKeys == {PortKey, FlowKey}

(* What follows the end of RRD.update in the frame f. Called by a
   collector's listen (stats.py lines 288-301, 332-341, 369-380), the loop
   goes on to the next item of the reply, and an exception leaves listen
   and the dispatcher; called by the thread itself, the operation ends. *)
update_return(f, k) ==
    IF f.op \in {"reply", "aggregate"} /\ k = "ok"
    THEN IF f.i < Len(f.ev.body)
         THEN [f EXCEPT !.pc = IF f.op = "reply" THEN "l_item" ELSE "ag_item",
                        !.i = @ + 1]
         ELSE Done(f, "ok", <<>>)
    ELSE Done(f, k, <<>>)

(* stats.py line 84: the row of values, in the order of the data sources;
   a data source that was not supplied raises KeyError. *)
update_join(f) ==
    IF Range(data_sources(f.app)) \subseteq DOMAIN f.ds_values
    THEN [f EXCEPT !.pc = "u_lock"]
    ELSE update_return(f, "KeyError")

update_data(f) ==
    LET ds == data_sources(f.app)
    IN [i \in 1..Len(ds) |-> f.ds_values[ds[i]]]

StartUpdate(t, keys, wide) ==
    /\ \E key \in keys : \E in \in UpdateInputs(key[1], wide) :
          /\ th' = [th EXCEPT ![t] =
                      [Frame0 EXCEPT !.pc = "u_exists", !.op = "update",
                                     !.app = key[1], !.index = key[2],
                                     !.tstamp = in.tstamp,
                                     !.ds_values = in.ds_values]]
          /\ hist' = [hist EXCEPT
                        !.written = @ \cup {get_rrd(key[1], key[2])}]
    /\ ops' = ops + 1
    /\ UNCHANGED <<now, dirs, files, rrds, rrd_lock, conn, mirror, msg_out,
                   poll, env>>

(* RRD.get_or_create_rrd, lines 122-128: the file is looked for; when it
   is missing its folder is made and create_rrd is called. *)
get_or_create_rrd(t) ==
    LET f == th[t]
        rrd == get_rrd(f.app, f.index)
    IN /\ f.pc = "u_exists"
       /\ IF rrd \in files
          THEN /\ th' = [th EXCEPT ![t] = update_join(f)]
               /\ dirs' = dirs
          ELSE /\ th' = [th EXCEPT ![t].pc = "c_lock"]
               /\ dirs' = dirs \cup {Parent(rrd)}
       /\ UNCHANGED <<now, files, rrds, rrd_lock, ops, hist, conn, mirror,
                      msg_out, poll, env>>

(* RRD.create_rrd, line 151: the lock is taken *)
create_rrd_lock(t) ==
    /\ th[t].pc = "c_lock"
    /\ Acquire(t)
    /\ th' = [th EXCEPT ![t].pc = "c_in"]
    /\ UNCHANGED <<now, dirs, files, rrds, ops, hist, conn, mirror, msg_out,
                   poll, env>>

(* RRD.create_rrd, line 152: rrdtool.create, then the lock is released
   and update goes on to line 84. *)
create_rrd(t) ==
    LET f == th[t]
        rrd == get_rrd(f.app, f.index)
    IN /\ f.pc = "c_in"
       /\ files' = files \cup {rrd}
       /\ rrds' = [rrds EXCEPT
                     ![rrd] = rrdtool_create(data_sources(f.app), now)]
       /\ hist' = [hist EXCEPT
                     !.created[rrd] = @ + 1,
                     !.lost = IF rrd \in files /\ ~IsNone(rrds[rrd].last)
                              THEN @ \cup {rrd} ELSE @]
       /\ Release(t)
       /\ th' = [th EXCEPT ![t] = update_join(f)]
       /\ UNCHANGED <<now, dirs, ops, conn, mirror, msg_out, poll, env>>

(* An update that goes on without the lock *)
update_nolock(t) ==
    /\ th[t].pc = "u_lock"
    /\ th' = [th EXCEPT ![t].pc = "u_in"]
    /\ UNCHANGED <<now, dirs, files, rrds, rrd_lock, ops, hist, conn, mirror,
                   msg_out, poll, env>>

(* RRD.update, line 85: the lock is taken *)
update_lock(t) ==
    /\ th[t].pc = "u_lock"
    /\ Acquire(t)
    /\ th' = [th EXCEPT ![t].pc = "u_in"]
    /\ UNCHANGED <<now, dirs, files, rrds, ops, hist, conn, mirror, msg_out,
                   poll, env>>

(* RRD.update, line 86: rrdtool.update, then the lock is released *)
update(t) ==
    LET f == th[t]
        rrd == get_rrd(f.app, f.index)
        at == IF IsNone(f.tstamp) THEN now ELSE f.tstamp[1]
    IN /\ f.pc = "u_in"
       /\ IF rrdtool_update_ok(rrds[rrd], f.tstamp)
          THEN /\ rrds' = [rrds EXCEPT
                             ![rrd] = rrdtool_update(@, at, update_data(f))]
               /\ hist' = [hist EXCEPT !.stored = @ \cup {rrd}]
               /\ th' = [th EXCEPT ![t] = update_return(f, "ok")]
          ELSE /\ rrds' = rrds
               /\ hist' = hist
               /\ th' = [th EXCEPT ![t] = update_return(f, "OperationalError")]
       /\ Release(t)
       /\ UNCHANGED <<now, dirs, files, ops, conn, mirror, msg_out,
                      poll, env>>

----------------------------------------------------------------------------
(* RRD.fetch(index, start=None, end=None, n_points=None) *)

(* Arguments start and end: None, an int, a string holding a number (as
   the query surface passes them on), 'first', 'end-<v>s' and 'now'. *)
IntArg(v) == [k |-> "int", v |-> v]
StrArg(v) == [k |-> "str", v |-> v]
FirstArg == [k |-> "first", v |-> 0]
RelArg(v) == [k |-> "rel", v |-> v]
NowArg == [k |-> "now", v |-> 0]

(* isinstance(x, int) *)
IsInt(x) == x.k = "int"

(* The fetch calls tried: every combination of omitted and supplied
   start, end and n_points, the strings of the query surface, 'first', and
   an end before the start. *)
FetchInputs(wide) ==
    IF wide
    THEN {[start |-> s, end |-> e, n_points |-> n] :
            s \in {NoArg, IntArg(0)},
            e \in {NoArg, IntArg(2 * STATS_INTERVAL)},
            n \in {None, <<2>>}}
         \cup {[start |-> StrArg(0), end |-> StrArg(2 * STATS_INTERVAL),
                n_points |-> <<2>>],
               [start |-> NoArg, end |-> StrArg(2 * STATS_INTERVAL),
                n_points |-> <<2>>],
               [start |-> FirstArg, end |-> NoArg, n_points |-> None],
               [start |-> IntArg(2 * STATS_INTERVAL), end |-> IntArg(0),
                n_points |-> None]}
    ELSE {[start |-> FirstArg, end |-> NoArg, n_points |-> None],
          [start |-> NoArg, end |-> NoArg, n_points |-> <<2>>]}

StartFetch(t, wide) ==
    /\ \E key \in StoreKeys : \E in \in FetchInputs(wide) :
          th' = [th EXCEPT ![t] =
                   [Frame0 EXCEPT !.pc = "f_exists", !.op = "fetch",
                                  !.app = key[1], !.index = key[2],
                                  !.start = in.start, !.end = in.end,
                                  !.n_points = in.n_points]]
    /\ ops' = ops + 1
    /\ UNCHANGED <<now, dirs, files, rrds, rrd_lock, hist, conn, mirror,
                   msg_out, poll, env>>

(* RRD.fetch_latest, lines 228-230: fetch(index, 'end-<3 intervals>s',
   end='now') *)
StartFetchLatest(t) ==
    /\ \E key \in StoreKeys :
          th' = [th EXCEPT ![t] =
                   [Frame0 EXCEPT !.pc = "f_exists", !.op = "fetch_latest",
                                  !.app = key[1], !.index = key[2],
                                  !.start = RelArg(STATS_INTERVAL * 3),
                                  !.end = NowArg]]
    /\ ops' = ops + 1
    /\ UNCHANGED <<now, dirs, files, rrds, rrd_lock, hist, conn, mirror,
                   msg_out, poll, env>>

(* A fetch_latest that answers a missing file with zeros *)
fetch_raise_zeros(f, k) ==
    IF f.op = "fetch_latest" /\ k = "FileNotFoundError"
    THEN Done(f, "ok", [c \in Range(data_sources(f.app)) |-> Num(0)])
    ELSE Done(f, k, <<>>)

(* RRD.fetch raises k; fetch_latest (lines 231-233) turns FileNotFoundError
   into the empty mapping and lets any other exception through. *)
fetch_raise(f, k) ==
    IF f.op = "fetch_latest" /\ k = "FileNotFoundError"
    THEN Done(f, "ok", <<>>)
    ELSE Done(f, k, <<>>)

(* RRD._calc_start_end, lines 216-219, and RRD.fetch, lines 188-193: ints
   are moved back one second, and the resolution is (end - start) //
   n_points when n_points is given and both are ints. *)
Shift(x) == IF IsInt(x) THEN IntArg(x.v - 1) ELSE x

Resolution(start, end, n_points) ==
    IF ~IsNone(n_points) /\ IsInt(start) /\ IsInt(end)
    THEN LET resolution == (end.v - start.v) \div n_points[1]
         IN IF resolution > 0 THEN <<resolution>> ELSE None
    ELSE None

calc_finish(f, start, end) ==
    [f EXCEPT !.pc = "f_lock",
              !.start = Shift(start),
              !.end = Shift(end),
              !.res = Resolution(Shift(start), Shift(end), f.n_points)]

(* RRD.fetch, line 179: Path(rrd).exists() *)
fetch_found(rrd) == rrd \in files

(* A fetch that looks its file up with get_or_create_rrd: a missing file
   is created, empty, and read. *)
fetch_exists_creating(t) ==
    LET f == th[t]
        rrd == get_rrd(f.app, f.index)
        end == IF f.end.k = "none" THEN IntArg(now) ELSE f.end
    IN /\ f.pc = "f_exists"
       /\ files' = files \cup {rrd}
       /\ dirs' = dirs \cup {Parent(rrd)}
       /\ rrds' = IF rrd \in files THEN rrds
                  ELSE [rrds EXCEPT
                          ![rrd] = rrdtool_create(data_sources(f.app), now)]
       /\ th' = [th EXCEPT ![t] =
            IF f.start.k = "none"
            THEN IF IsNone(f.n_points) \/ ~IsInt(end)
                 THEN fetch_raise(f, "TypeError")
                 ELSE calc_finish(f,
                        IntArg(end.v - f.n_points[1] * STATS_INTERVAL), end)
            ELSE IF f.start.k = "first"
            THEN [f EXCEPT !.pc = "first_lock", !.end = end]
            ELSE calc_finish(f, f.start, end)]
       /\ UNCHANGED <<now, rrd_lock, ops, hist, conn, mirror, msg_out, poll,
                      env>>

(* RRD.fetch, lines 178-185, with _calc_start_end, lines 207-211: the file
   must exist; end defaults to the clock, start to n_points intervals
   before end (a TypeError when n_points is None or end is a string). *)
fetch_exists(t) ==
    LET f == th[t]
        rrd == get_rrd(f.app, f.index)
        end == IF f.end.k = "none" THEN IntArg(now) ELSE f.end
    IN /\ f.pc = "f_exists"
       /\ th' = [th EXCEPT ![t] =
            IF ~fetch_found(rrd) THEN fetch_raise(f, "FileNotFoundError")
            ELSE IF f.start.k = "none"
            THEN IF IsNone(f.n_points) \/ ~IsInt(end)
                 THEN fetch_raise(f, "TypeError")
                 ELSE calc_finish(f,
                        IntArg(end.v - f.n_points[1] * STATS_INTERVAL), end)
            ELSE IF f.start.k = "first"
            THEN [f EXCEPT !.pc = "first_lock", !.end = end]
            ELSE calc_finish(f, f.start, end)]
       /\ UNCHANGED <<now, dirs, files, rrds, rrd_lock, ops, hist, conn,
                      mirror, msg_out, poll, env>>

(* RRD._calc_start_end, line 212: the lock is taken *)
first_lock(t) ==
    /\ th[t].pc = "first_lock"
    /\ Acquire(t)
    /\ th' = [th EXCEPT ![t].pc = "first_in"]
    /\ UNCHANGED <<now, dirs, files, rrds, ops, hist, conn, mirror, msg_out,
                   poll, env>>

(* A _calc_start_end that keeps the lock after rrdtool.first, so that
   fetch takes it again while holding it *)
first_nested(t) ==
    LET f == th[t]
        rrd == get_rrd(f.app, f.index)
    IN /\ f.pc = "first_in"
       /\ th' = [th EXCEPT ![t] =
                   calc_finish(f, IntArg(rrdtool_first(rrds[rrd])), f.end)]
       /\ UNCHANGED <<now, dirs, files, rrds, rrd_lock, ops, hist, conn,
                      mirror, msg_out, poll, env>>

(* RRD._calc_start_end, line 213: rrdtool.first, the lock is released *)
first(t) ==
    LET f == th[t]
        rrd == get_rrd(f.app, f.index)
    IN /\ f.pc = "first_in"
       /\ Release(t)
       /\ th' = [th EXCEPT ![t] =
                   calc_finish(f, IntArg(rrdtool_first(rrds[rrd])), f.end)]
       /\ UNCHANGED <<now, dirs, files, rrds, ops, hist, conn, mirror,
                      msg_out, poll, env>>

(* RRD.fetch, line 197: the lock is taken *)
fetch_lock(t) ==
    /\ th[t].pc = "f_lock"
    /\ Acquire(t)
    /\ th' = [th EXCEPT ![t].pc = "f_in"]
    /\ UNCHANGED <<now, dirs, files, rrds, ops, hist, conn, mirror, msg_out,
                   poll, env>>

(* Python's range(lo, hi, step) for a positive step *)
PyRange(lo, hi, step) ==
    IF hi <= lo THEN <<>>
    ELSE [i \in 1..((hi - lo + step - 1) \div step) |-> lo + (i - 1) * step]

(* The time rrdtool reads from a start or end argument *)
EndTime(end) == IF end.k = "now" THEN now ELSE end.v
StartTime(start, e) == IF start.k = "rel" THEN e - start.v ELSE start.v

(* RRD.fetch, lines 198-201: rrdtool.fetch (which refuses an end before
   the start), the lock is released, and the result is
   (range(start + step, stop + 1, step), cols, rows). *)
fetch(t) ==
    LET f == th[t]
        rrd == get_rrd(f.app, f.index)
        e == EndTime(f.end)
        s == StartTime(f.start, e)
        got == rrdtool_fetch(rrds[rrd], s, e)
        result == [tstamps |-> PyRange(got.tstamps[1] + got.tstamps[3],
                                       got.tstamps[2] + 1, got.tstamps[3]),
                   cols |-> got.cols,
                   rows |-> got.rows]
    IN /\ f.pc = "f_in"
       /\ Release(t)
       /\ th' = [th EXCEPT ![t] =
            IF rrd \notin files \/ e < s
            THEN fetch_raise(f, "OperationalError")
            ELSE IF f.op = "fetch_latest"
            THEN [f EXCEPT !.pc = "fl_scan", !.fetched = result]
            ELSE Done([f EXCEPT !.fetched = result], "ok", <<>>)]
       /\ UNCHANGED <<now, dirs, files, rrds, ops, hist, conn, mirror,
                      msg_out, poll, env>>

----------------------------------------------------------------------------
(* RRD.fetch_latest *)

(* lines 235-240: the rows are visited from the last to the first, and
   every row whose first value is not None and whose time is after
   min_tstamp is assigned to latest. *)
(* A search that takes a row of any age *)
qualifies_any_age(row, tstamp, min_tstamp) == ~IsNone(row[1])

(* line 239: row[0] is not None and tstamp > min_tstamp *)
qualifies(row, tstamp, min_tstamp) ==
    ~IsNone(row[1]) /\ tstamp > min_tstamp

RECURSIVE SearchBackwards(_, _, _, _, _)
SearchBackwards(tstamps, rows, i, min_tstamp, latest) ==
    IF i = 0 THEN latest
    ELSE SearchBackwards(tstamps, rows, i - 1, min_tstamp,
            IF qualifies(rows[i], tstamps[i], min_tstamp)
            THEN <<rows[i]>> ELSE latest)

(* zip(a, b) stops at the shorter of the two *)
ZipLen(a, b) == IF Len(a) < Len(b) THEN Len(a) ELSE Len(b)

(* lines 242-244: zeros when nothing was found; the mapping of the column
   names to the values *)
ZeroFill(latest, cols) ==
    IF IsNone(latest) THEN [i \in 1..Len(cols) |-> Num(0)] ELSE latest[1]

Mapping(cols, vals) ==
    [c \in {cols[i] : i \in 1..ZipLen(cols, vals)} |->
        vals[CHOOSE i \in 1..ZipLen(cols, vals) : cols[i] = c]]

latest_of(fetched, min_tstamp) ==
    LET n == ZipLen(fetched.tstamps, fetched.rows)
        m == Len(fetched.tstamps)
        k == Len(fetched.rows)
    IN SearchBackwards([i \in 1..n |-> fetched.tstamps[m - n + i]],
                       [i \in 1..n |-> fetched.rows[k - n + i]],
                       n, min_tstamp, None)

(* lines 235-244: min_tstamp is read from the clock, the rows are searched
   and the mapping is returned. *)
fetch_latest(t) ==
    LET f == th[t]
        min_tstamp == now - STATS_INTERVAL * 2
        latest == latest_of(f.fetched, min_tstamp)
    IN /\ f.pc = "fl_scan"
       /\ th' = [th EXCEPT ![t] =
                   Done([f EXCEPT !.min_tstamp = min_tstamp], "ok",
                        Mapping(f.fetched.cols,
                                ZeroFill(latest, f.fetched.cols)))]
       /\ UNCHANGED <<now, dirs, files, rrds, rrd_lock, ops, hist, conn,
                      mirror, msg_out, poll, env>>

----------------------------------------------------------------------------
(* main.py: the reply dispatcher, and the collectors' listen *)

(* StatsTypes / MultipartTypes values of the kinds (the same in both
   protocol dialects) *)
OFPST_FLOW == 1
OFPST_AGGREGATE == 2
OFPST_PORT == 4

(* Main.setup, lines 20-21: self._stats, in insertion order *)
StatsOrder == <<OFPST_PORT, OFPST_FLOW>>
_stats == [k \in Range(StatsOrder) |->
             IF k = OFPST_PORT THEN "PortStats" ELSE "FlowStats"]

(* The class attributes that hold RRD instances (named by their app
   folder): Stats.rrd = None (line 26), PortStats.rrd (line 262),
   AggregateStats._rrd (line 316), FlowStats.rrd (line 347) *)
NoRrd == "None"
ClassAttrs ==
    [Stats |-> [rrd |-> NoRrd],
     PortStats |-> [rrd |-> "ports"],
     AggregateStats |-> [_rrd |-> "aggr"],
     FlowStats |-> [rrd |-> "flows"]]

(* cls.<name>: the attribute of the class, or the one it inherits from
   Stats *)
getattr(cls, name) ==
    IF name \in DOMAIN ClassAttrs[cls] THEN ClassAttrs[cls][name]
    ELSE ClassAttrs["Stats"][name]

(* The RRD instance a collector's listen updates: cls.rrd *)
rrd_of(stats) == getattr(stats, "rrd")

(* The bodies of the replies: the items of a port reply name ports, those
   of a flow reply flows; every counter of an item is 1. *)
Bodies(kind) ==
    IF kind = OFPST_PORT THEN {<<>>, <<1>>, <<2>>, <<1, 2>>}
    ELSE IF kind = OFPST_FLOW THEN {<<>>, <<7>>}
    ELSE {<<>>}

Events ==
    {[dialect |-> d, kind |-> k, switch |-> sw, body |-> b] :
        d \in {"v0x01", "v0x04"}, k \in {OFPST_FLOW, OFPST_AGGREGATE, OFPST_PORT},
        sw \in Switches, b \in UNION {Bodies(k2) : k2 \in {OFPST_FLOW, OFPST_AGGREGATE, OFPST_PORT}}}

(* The interfaces and flows the controller knows: port 1 of every switch,
   flow 7 of s1. *)
Mirrored == {get_rrd("ports", <<sw, 1>>) : sw \in Switches}
               \cup {get_rrd("flows", <<"s1", 7>>)}

(* Main.listen_v0x01 / listen_v0x04, lines 43-55: a reply event arrives
   and its handler is run by a thread. *)
StartReply(t) ==
    /\ \E ev \in Events :
          /\ ev.body \in Bodies(ev.kind)
          /\ th' = [th EXCEPT ![t] =
                      [Frame0 EXCEPT !.pc = "l_dispatch", !.op = "reply",
                                     !.ev = ev]]
    /\ ops' = ops + 1
    /\ UNCHANGED <<now, dirs, files, rrds, rrd_lock, hist, conn, mirror,
                   msg_out, poll, env>>

(* A dispatcher that always takes the first collector *)
lookup_first(stats_type) == _stats[StatsOrder[1]]

(* Main._listen, line 66: self._stats[stats_type.value] *)
lookup(stats_type) == _stats[stats_type]

(* Main._listen, lines 64-71: the collector registered under the kind is
   called with the source's switch and the body; without one the reply is
   logged, and the log call reads msg.body_type, which a v0x04 multipart
   reply does not have (AttributeError). *)
_listen(t) ==
    LET f == th[t]
        ev == f.ev
        call == [stats |-> lookup(ev.kind), switch |-> ev.switch,
                 stats_list |-> ev.body]
    IN /\ f.pc = "l_dispatch"
       /\ th' = [th EXCEPT ![t] =
            IF ev.kind \in DOMAIN _stats
            THEN IF ev.body = <<>>
                 THEN Done([f EXCEPT !.calls = Append(@, call)], "ok", <<>>)
                 ELSE [f EXCEPT !.pc = "l_item", !.i = 1,
                                !.calls = Append(@, call)]
            ELSE IF ev.dialect = "v0x01"
            THEN Done(f, "ok", <<>>)
            ELSE Done(f, "AttributeError", <<>>)]
       /\ UNCHANGED <<now, dirs, files, rrds, rrd_lock, ops, hist, conn,
                      mirror, msg_out, poll, env>>

(* The outcomes of the mirroring step (iface.stats.update(port_stats),
   flow_class.from_of_flow_stats(fs, switch)): it returns or it raises. *)
MirrorOutcomes == {"ok", "raises"}

(* PortStats.listen, lines 288-296, and FlowStats.listen, lines 369-380:
   for the item i of the reply, the controller's interface (flow) object,
   when there is one, gets the item's stats, and RRD.update is called with
   the index (switch.id, port_no / flow.id) and the item's counters. The
   mirroring step comes first and is not guarded: when it raises, the
   exception leaves listen. *)
listen(t) ==
    LET f == th[t]
        stats == f.calls[1].stats
        app == rrd_of(stats)
        ds == data_sources(app)
        index == <<f.ev.switch, f.ev.body[f.i]>>
        obj == get_rrd(app, index)
    IN /\ f.pc = "l_item"
       /\ \E outcome \in IF obj \in Mirrored THEN MirrorOutcomes ELSE {"ok"} :
             IF outcome = "raises"
             THEN /\ th' = [th EXCEPT ![t] = Done(f, "MirrorError", <<>>)]
                  /\ UNCHANGED <<mirror, hist>>
             ELSE /\ mirror' = IF obj \in Mirrored
                               THEN [mirror EXCEPT ![obj] = <<1>>]
                               ELSE mirror
                  /\ th' = [th EXCEPT ![t] =
                        [f EXCEPT !.pc = "u_exists", !.app = app,
                                  !.index = index, !.tstamp = None,
                                  !.ds_values =
                                      DsValues(Range(ds), ds[1], 1, 1),
                                  !.updates = Append(@, index)]]
                  /\ hist' = [hist EXCEPT !.written = @ \cup {obj}]
       /\ UNCHANGED <<now, dirs, files, rrds, rrd_lock, ops, conn, msg_out,
                      poll, env>>

(* The bodies of the aggregate replies: a number of items, every counter
   of an item being 1 *)
AggregateBodies == {<<>>, <<1>>, <<1, 1>>}

(* AggregateStats.listen(switch, aggregate_stats) is called (Main does not
   register the collector, lines 20-21, so by a caller of its own); line
   332: the loop over the items starts. *)
StartAggregate(t) ==
    /\ \E sw \in Switches : \E body \in AggregateBodies :
          LET f == [Frame0 EXCEPT
                      !.op = "aggregate",
                      !.ev = [dialect |-> "v0x01", kind |-> OFPST_AGGREGATE,
                              switch |-> sw, body |-> body]]
          IN th' = [th EXCEPT ![t] =
                      IF body = <<>> THEN Done(f, "ok", <<>>)
                      ELSE [f EXCEPT !.pc = "ag_item", !.i = 1]]
    /\ ops' = ops + 1
    /\ UNCHANGED <<now, dirs, files, rrds, rrd_lock, hist, conn, mirror,
                   msg_out, poll, env>>

(* AggregateStats.listen, lines 335-338: for the item i, cls.rrd.update is
   called with the index (switch.id,) and the item's packet_count,
   byte_count and flow_count. cls.rrd is looked up on the class; when it
   is None the call of its update raises AttributeError. *)
AggregateStats_listen(t) ==
    LET f == th[t]
        rrd == rrd_of("AggregateStats")
        index == <<f.ev.switch>>
    IN /\ f.pc = "ag_item"
       /\ IF rrd = NoRrd
          THEN /\ th' = [th EXCEPT ![t] = Done(f, "AttributeError", <<>>)]
               /\ hist' = hist
          ELSE /\ th' = [th EXCEPT ![t] =
                    [f EXCEPT !.pc = "u_exists", !.app = rrd,
                              !.index = index, !.tstamp = None,
                              !.ds_values =
                                  DsValues(Range(AggrDS), AggrDS[1],
                                           f.ev.body[f.i], f.ev.body[f.i]),
                              !.updates = Append(@, index)]]
               /\ hist' = [hist EXCEPT
                             !.written = @ \cup {get_rrd(rrd, index)}]
       /\ UNCHANGED <<now, dirs, files, rrds, rrd_lock, ops, conn, mirror,
                      msg_out, poll, env>>

----------------------------------------------------------------------------
(* main.py: the polling loop, and the collectors' request *)

(* A switch's connection: None, or established with a protocol version *)
NoConn == [k |-> "none", v |-> 0]
Established(v) == [k |-> "established", v |-> v]
Versions == {1, 4}

(* list(self.controller.switches.values()) *)
SwitchOrder == <<"s1", "s2">>

Poll0 ==
    [pc |-> "sleep", round |-> 0, switches |-> <<>>, i |-> 0, j |-> 0,
     touched |-> {}]

(* Switch.is_connected() *)
is_connected(sw) == conn[sw].k = "established"

(* Main.execute, line 27: a round starts with the list of the switches *)
execute(max) ==
    /\ poll.pc = "sleep"
    /\ poll.round < max
    /\ poll' = [poll EXCEPT !.pc = "check", !.round = @ + 1,
                            !.switches = SwitchOrder, !.i = 1, !.j = 0,
                            !.touched = {}]
    /\ UNCHANGED <<now, dirs, files, rrds, rrd_lock, th, ops, hist, conn,
                   mirror, msg_out, env>>

(* Main.execute, lines 28-29: the next switch, if any, is asked whether it
   is connected; after the last one execute returns. *)
execute_check ==
    /\ poll.pc = "check"
    /\ poll' = IF poll.i > Len(poll.switches)
               THEN [poll EXCEPT !.pc = "sleep"]
               ELSE IF is_connected(poll.switches[poll.i])
               THEN [poll EXCEPT !.pc = "version"]
               ELSE [poll EXCEPT !.i = @ + 1]
    /\ UNCHANGED <<now, dirs, files, rrds, rrd_lock, th, ops, hist, conn,
                   mirror, msg_out, env>>

(* Main.execute, line 30: switch.connection.protocol.version is read (an
   AttributeError when the connection is None by now). *)
execute_version ==
    LET c == conn[poll.switches[poll.i]]
    IN /\ poll.pc = "version"
       /\ poll' = IF c.k = "none" THEN [poll EXCEPT !.pc = "raised"]
                  ELSE IF c.v = 1
                  THEN [poll EXCEPT !.pc = "stats", !.j = 1]
                  ELSE [poll EXCEPT !.pc = "check", !.i = @ + 1]
       /\ UNCHANGED <<now, dirs, files, rrds, rrd_lock, th, ops, hist, conn,
                      mirror, msg_out, env>>

(* Main._update_stats, lines 39-40: the next collector, if any; the
   connection is tested. *)
_update_stats ==
    LET c == conn[poll.switches[poll.i]]
    IN /\ poll.pc = "stats"
       /\ poll' = IF poll.j > Len(StatsOrder)
                  THEN [poll EXCEPT !.pc = "check", !.i = @ + 1]
                  ELSE IF c.k # "none" THEN [poll EXCEPT !.pc = "request"]
                  ELSE [poll EXCEPT !.j = @ + 1]
       /\ UNCHANGED <<now, dirs, files, rrds, rrd_lock, th, ops, hist, conn,
                      mirror, msg_out, env>>

(* PortStats / FlowStats._get_versioned_request *)
_get_versioned_request(kind, of_version) ==
    IF of_version = 1
    THEN [type |-> "StatsRequest", kind |-> kind]
    ELSE [type |-> "MultipartRequest", kind |-> kind]

(* A collector that keeps one outstanding request per switch and kind *)
_send_event_once(req, sw, round) ==
    IF \E i \in DOMAIN msg_out :
          msg_out[i].destination = sw /\ msg_out[i].message.kind = req.kind
    THEN msg_out
    ELSE Append(msg_out, [message |-> req, destination |-> sw, round |-> round])

(* Stats._send_event: the event put into the buffer *)
_send_event(req, sw, round) ==
    Append(msg_out, [message |-> req, destination |-> sw, round |-> round])

(* Main._update_stats, line 41, with PortStats / FlowStats.request, lines
   265-269 and 349-353: switch.connection is read again and passed to
   request, which reads conn.protocol.version (an AttributeError when the
   connection is None by now) and sends the request. *)
request ==
    LET sw == poll.switches[poll.i]
        c == conn[sw]
        kind == StatsOrder[poll.j]
    IN /\ poll.pc = "request"
       /\ IF c.k = "none"
          THEN /\ poll' = [poll EXCEPT !.pc = "raised"]
               /\ msg_out' = msg_out
          ELSE /\ poll' = [poll EXCEPT !.pc = "stats", !.j = @ + 1]
               /\ msg_out' = _send_event(_get_versioned_request(kind, c.v),
                                         sw, poll.round)
       /\ UNCHANGED <<now, dirs, files, rrds, rrd_lock, th, ops, hist, conn,
                      mirror, env>>

(* PortStats.request / FlowStats.request, lines 265-269 and 349-353,
   called by any caller with the connection of a switch: the request of
   the connection's protocol version is built and sent. *)
request_conn(sw, kind) ==
    /\ conn[sw].k # "none"
    /\ msg_out' = _send_event(_get_versioned_request(kind, conn[sw].v), sw, 0)
    /\ hist' = [hist EXCEPT !.requested = Append(@, <<sw, kind>>)]
    /\ ops' = ops + 1
    /\ UNCHANGED <<now, dirs, files, rrds, rrd_lock, th, conn, mirror, poll,
                   env>>

(* The transport layer: a switch disconnects (Switch.disconnect sets its
   connection to None) or connects, at any time. *)
InRound == poll.pc \notin {"sleep", "raised"}

Disconnect(sw) ==
    /\ env < MaxEnv
    /\ conn[sw].k # "none"
    /\ conn' = [conn EXCEPT ![sw] = NoConn]
    /\ env' = env + 1
    /\ poll' = IF InRound THEN [poll EXCEPT !.touched = @ \cup {sw}] ELSE poll
    /\ UNCHANGED <<now, dirs, files, rrds, rrd_lock, th, ops, hist, mirror,
                   msg_out>>

Connect(sw, v) ==
    /\ env < MaxEnv
    /\ conn[sw].k = "none"
    /\ conn' = [conn EXCEPT ![sw] = Established(v)]
    /\ env' = env + 1
    /\ poll' = IF InRound THEN [poll EXCEPT !.touched = @ \cup {sw}] ELSE poll
    /\ UNCHANGED <<now, dirs, files, rrds, rrd_lock, th, ops, hist, mirror,
                   msg_out>>

(* The clock *)
Tick ==
    /\ now < MaxTime
    /\ now' = now + TickLen
    /\ UNCHANGED <<dirs, files, rrds, rrd_lock, th, ops, hist, conn, mirror,
                   msg_out, poll, env>>

----------------------------------------------------------------------------
(* stats_api.py: the REST calls on port statistics *)

(* StatsAPI.get_points, line 23: n_points=30 *)
N_POINTS == 30

(* What the controller knows of the switch a call names: nothing, or its
   interfaces (sorted by port number) and iface.speed of each (None, or
   bytes per second). *)
Speeds == {None, <<10>>}
CtlViews ==
    {[known |-> FALSE, ifaces |-> <<>>, speed |-> [p \in Ports |-> None]]}
    \cup {c \in [known : {TRUE}, ifaces : {<<>>, <<1>>, <<1, 2>>},
                  speed : [Ports -> Speeds]] :
            \A p \in Ports \ Range(c.ifaces) : IsNone(c.speed[p])}

(* request.args.get('start'), request.args.get('end'): absent, or the
   string of the query *)
QueryArgs ==
    {[start |-> a, end |-> b] :
        a \in {NoArg, StrArg(0)}, b \in {NoArg, StrArg(2 * STATS_INTERVAL)}}

ApiFree(t) ==
    \/ th[t].pc \in {"idle", "a_done"}
    \/ th[t].pc = "done" /\ th[t].api.kind = "none"

(* The call ends, a response (k = "ok") or the exception k, and the
   fetched rows go with its locals. *)
ApiDone(f, k, status) ==
    [f EXCEPT !.pc = "a_done", !.result = [k |-> k, ret |-> <<>>],
              !.fetched = NoFetch, !.api.status = status]

(* PortStatsAPI.get_stats, lines 174-177, get_points, lines 25-26, and
   _get_points_data / _fetch, lines 32-34 and 51, for a switch the
   controller has one of the views of: the index is (dpid, port) and
   RRD.fetch is called with the start and end of the query. *)
get_stats(t, views) ==
    /\ \E port \in Ports : \E q \in QueryArgs : \E c \in views :
          th' = [th EXCEPT ![t] =
                   [Frame0 EXCEPT
                      !.pc = "f_exists", !.op = "fetch", !.app = "ports",
                      !.index = <<"s1", port>>,
                      !.start = q.start, !.end = q.end,
                      !.n_points = <<N_POINTS>>,
                      !.api = [NoApi EXCEPT !.kind = "get_stats",
                                            !.known = c.known,
                                            !.ifaces = c.ifaces,
                                            !.speed = c.speed]]]
    /\ ops' = ops + 1
    /\ UNCHANGED <<now, dirs, files, rrds, rrd_lock, hist, conn, mirror,
                   msg_out, poll, env>>

(* StatsAPI._fetch, lines 51-56: self._stats gets one list per column,
   filled row by row, and the list of the timestamps (rrdtool's rows have
   one value per column). *)
_fetch(fetched) ==
    [NoPoints EXCEPT
       !.timestamps = fetched.tstamps,
       !.cols = fetched.cols,
       !.data = [c \in Range(fetched.cols) |->
                   LET j == CHOOSE j \in DOMAIN fetched.cols :
                                fetched.cols[j] = c
                   IN [i \in DOMAIN fetched.rows |-> fetched.rows[i][j]]]]

(* lst.pop(i), for the position i counted from 1 *)
Pop(lst, i) ==
    [k \in 1..(Len(lst) - 1) |-> IF k < i THEN lst[k] ELSE lst[k + 1]]

(* StatsAPI._remove_null, lines 74-77: the column the inner loop stops at,
   the first one whose element i is not None, or the last column *)
RECURSIVE StopCol(_, _, _)
StopCol(stats, i, j) ==
    IF j = Len(stats.cols) \/ ~IsNone(stats.data[stats.cols[j]][i])
    THEN stats.cols[j]
    ELSE StopCol(stats, i, j + 1)

(* A _remove_null that visits the positions from the first to the last
   while it pops: the position after a popped one is skipped, and the last
   ones are beyond the end of the lists. *)
RECURSIVE RemoveForward(_, _, _)
RemoveForward(stats, i, n) ==
    IF i > n THEN stats
    ELSE IF stats.cols = <<>> THEN [stats EXCEPT !.raised = "NameError"]
    ELSE IF i > Len(stats.data[stats.cols[1]])
    THEN [stats EXCEPT !.raised = "IndexError"]
    ELSE IF ~IsNone(stats.data[StopCol(stats, i, 1)][i])
    THEN RemoveForward(stats, i + 1, n)
    ELSE RemoveForward([stats EXCEPT
                          !.timestamps = Pop(@, i),
                          !.data = [c \in DOMAIN @ |-> Pop(@[c], i)]],
                       i + 1, n)

_remove_null_forward(stats) == RemoveForward(stats, 1, Len(stats.timestamps))

(* StatsAPI._remove_null, lines 68-83: the positions are visited from the
   last to the first; the inner loop looks for a non-null element, and the
   test after it reads the column the loop stopped at; a position with no
   non-null element is popped from every list, the timestamps included.
   Without a column the test reads an unbound name, and a position beyond
   the end of the column lists is an IndexError. *)
RECURSIVE RemoveRows(_, _)
RemoveRows(stats, i) ==
    IF i = 0 THEN stats
    ELSE IF stats.cols = <<>> THEN [stats EXCEPT !.raised = "NameError"]
    ELSE IF i > Len(stats.data[stats.cols[1]])
    THEN [stats EXCEPT !.raised = "IndexError"]
    ELSE IF ~IsNone(stats.data[StopCol(stats, i, 1)][i])
    THEN RemoveRows(stats, i - 1)
    ELSE RemoveRows([stats EXCEPT
                       !.timestamps = Pop(@, i),
                       !.data = [c \in DOMAIN @ |-> Pop(@[c], i)]],
                    i - 1)

_remove_null(stats) == RemoveRows(stats, Len(stats.timestamps))

(* StatsAPI.get_points, lines 25-29, with PortStatsAPI._get_points_data,
   lines 181-185: RRD.fetch has returned or raised. FileNotFoundError
   becomes the 404 response and any other exception leaves get_points;
   after a fetch the rows are shaped (_fetch, lines 52-58), then the
   switch is looked up and asked for the interface (an AttributeError when
   the controller does not know the switch), and _get_speed reads
   iface.port_number (an AttributeError when the switch does not have the
   interface). *)
get_points(t) ==
    LET f == th[t]
        port == f.index[2]
        stats == _remove_null(_fetch(f.fetched))
    IN /\ f.pc = "done"
       /\ f.api.kind = "get_stats"
       /\ th' = [th EXCEPT ![t] =
            IF f.result.k = "FileNotFoundError" THEN ApiDone(f, "ok", "404")
            ELSE IF f.result.k # "ok" THEN ApiDone(f, f.result.k, "none")
            ELSE IF stats.raised # "none"
            THEN ApiDone(f, stats.raised, "none")
            ELSE IF ~f.api.known THEN ApiDone(f, "AttributeError", "none")
            ELSE IF port \notin Range(f.api.ifaces)
            THEN ApiDone(f, "AttributeError", "none")
            ELSE ApiDone([f EXCEPT
                            !.api.points =
                                [stats EXCEPT !.speed = f.api.speed[port]]],
                         "ok", "200")]
       /\ UNCHANGED <<now, dirs, files, rrds, rrd_lock, ops, hist, conn,
                      mirror, msg_out, poll, env>>

(* The call of RRD.fetch_latest for the interface j of the list *)
latest_call(f, api, j) ==
    [Frame0 EXCEPT !.pc = "f_exists", !.op = "fetch_latest",
                   !.app = "ports", !.index = <<"s1", api.ifaces[j]>>,
                   !.start = RelArg(STATS_INTERVAL * 3), !.end = NowArg,
                   !.api = [api EXCEPT !.j = j]]

(* PortStatsAPI.get_list, lines 158-161, with StatsAPI.get_latest, lines
   38-44: without the switch the data is the empty list; otherwise
   _get_latest_stats goes through the interfaces in the order of their
   port numbers, first calling fetch_latest for (dpid, port). *)
get_list(t) ==
    /\ \E c \in CtlViews :
          LET api == [NoApi EXCEPT !.kind = "get_list", !.known = c.known,
                                   !.ifaces = c.ifaces, !.speed = c.speed]
          IN th' = [th EXCEPT ![t] =
                      IF ~c.known \/ c.ifaces = <<>>
                      THEN ApiDone([Frame0 EXCEPT !.api = api], "ok", "200")
                      ELSE latest_call(Frame0, api, 1)]
    /\ ops' = ops + 1
    /\ UNCHANGED <<now, dirs, files, rrds, rrd_lock, hist, conn, mirror,
                   msg_out, poll, env>>

(* PortStatsAPI._util_cols *)
_util_cols == <<<<"rx_bytes", "rx_util">>, <<"tx_bytes", "tx_util">>>>

(* PortStatsAPI._add_utilization, lines 200-213: the exception it raises,
   if any: with a speed, row[bytes_col] is read (KeyError when the row
   does not have the column) and divided by the speed (TypeError when the
   value is None). *)
_add_utilization_raises(row, speed) ==
    IF IsNone(speed) THEN "ok"
    ELSE LET bad == {i \in DOMAIN _util_cols :
                        \/ _util_cols[i][1] \notin DOMAIN row
                        \/ IsNone(row[_util_cols[i][1]])}
         IN IF bad = {} THEN "ok"
            ELSE LET i == CHOOSE k \in bad : \A m \in bad : k <= m
                 IN IF _util_cols[i][1] \notin DOMAIN row
                    THEN "KeyError" ELSE "TypeError"

(* The utilization columns: None without a speed, the rate divided by the
   speed otherwise *)
_add_utilization(row, speed) ==
    [i \in DOMAIN _util_cols |->
        IF IsNone(speed) THEN None
        ELSE LET v == row[_util_cols[i][1]]
             IN <<v[1], v[2] * speed[1]>>]

(* PortStatsAPI._get_latest_stats, lines 164-172, and the end of
   get_latest, lines 43-44: fetch_latest has returned the row of the
   interface (or raised); the port and the speed are added, then the
   utilization, and the next interface follows or the response is
   returned. *)
_get_latest_stats(t) ==
    LET f == th[t]
        j == f.api.j
        port == f.api.ifaces[j]
        speed == f.api.speed[port]
        row == f.result.ret
        raises == _add_utilization_raises(row, speed)
        item == [port |-> port, cols |-> DOMAIN row, speed |-> speed,
                 util |-> IF raises = "ok" THEN _add_utilization(row, speed)
                          ELSE <<>>]
        api == [f.api EXCEPT !.list = Append(@, item)]
    IN /\ f.pc = "done"
       /\ f.api.kind = "get_list"
       /\ th' = [th EXCEPT ![t] =
            IF f.result.k # "ok" THEN ApiDone(f, f.result.k, "none")
            ELSE IF raises # "ok" THEN ApiDone(f, raises, "none")
            ELSE IF j < Len(f.api.ifaces) THEN latest_call(f, api, j + 1)
            ELSE ApiDone([f EXCEPT !.api = api], "ok", "200")]
       /\ UNCHANGED <<now, dirs, files, rrds, rrd_lock, ops, hist, conn,
                      mirror, msg_out, poll, env>>

----------------------------------------------------------------------------
Init0 ==
    /\ now = 0
    /\ dirs = {}
    /\ files = {}
    /\ rrds = [p \in Paths |-> rrdtool_create(<<>>, 0)]
    /\ rrd_lock = NoThread
    /\ th = [t \in Threads |-> Frame0]
    /\ ops = 0
    /\ hist = Hist0
    /\ mirror = [o \in Mirrored |-> None]
    /\ msg_out = <<>>
    /\ poll = Poll0
    /\ env = 0

(* The store's callers and the reply handlers do not read the connections. *)
Init == Init0 /\ conn = [s \in Switches |-> Established(1)]

(* The polling loop starts with the switches in any state. *)
InitPoll ==
    Init0 /\ conn \in [Switches -> {NoConn} \cup {Established(v) : v \in Versions}]

StoreStep(t) ==
    \/ get_or_create_rrd(t)
    \/ create_rrd_lock(t)
    \/ create_rrd(t)
    \/ update_lock(t)
    \/ update(t)
    \/ fetch_exists(t)
    \/ first_lock(t)
    \/ first(t)
    \/ fetch_lock(t)
    \/ fetch(t)
    \/ fetch_latest(t)

(* Concurrent callers of the store: every thread runs one operation. *)
NextStore ==
    \/ \E t \in Threads : th[t].pc = "idle" /\ StartUpdate(t, StoreKeys, FALSE)
    \/ \E t \in Threads : th[t].pc = "idle" /\ StartFetch(t, FALSE)
    \/ \E t \in Threads : th[t].pc = "idle" /\ StartFetchLatest(t)
    \/ \E t \in Threads : StoreStep(t)
    \/ Tick

SpecStore == Init /\ [][NextStore]_vars

(* One caller of the store: a sequence of at most MaxOps operations. *)
NextSeq ==
    \/ Free("t1") /\ ops < MaxOps /\ StartUpdate("t1", {PortKey}, TRUE)
    \/ Free("t1") /\ ops < MaxOps /\ StartFetch("t1", TRUE)
    \/ Free("t1") /\ ops < MaxOps /\ StartFetchLatest("t1")
    \/ StoreStep("t1")
    \/ Tick

SpecSeq == Init /\ [][NextSeq]_vars


(* The reply handlers: every thread handles one reply. *)
NextListen ==
    \/ \E t \in Threads : th[t].pc = "idle" /\ StartReply(t)
    \/ \E t \in Threads : _listen(t)
    \/ \E t \in Threads : listen(t)
    \/ \E t \in Threads : get_or_create_rrd(t)
    \/ \E t \in Threads : create_rrd_lock(t)
    \/ \E t \in Threads : create_rrd(t)
    \/ \E t \in Threads : update_lock(t)
    \/ \E t \in Threads : update(t)

SpecListen == Init /\ [][NextListen]_vars

(* The reply handlers and callers of the aggregate collector's listen *)
NextAggr ==
    \/ NextListen
    \/ \E t \in Threads : th[t].pc = "idle" /\ StartAggregate(t)
    \/ \E t \in Threads : AggregateStats_listen(t)

SpecAggr == Init /\ [][NextAggr]_vars

(* The polling loop and the transport layer *)
NextPoll ==
    \/ execute(MaxRounds)
    \/ execute_check
    \/ execute_version
    \/ _update_stats
    \/ request
    \/ \E sw \in Switches : Disconnect(sw)
    \/ \E sw \in Switches : \E v \in Versions : Connect(sw, v)

SpecPoll == InitPoll /\ [][NextPoll]_vars

(* Requests and replies in any order: one caller makes request calls on
   the collectors and handles the replies that arrive. *)
InitRequest ==
    Init0 /\ conn = [s \in Switches |->
                       IF s = "s1" THEN Established(1) ELSE Established(4)]

NextRequest ==
    \/ \E sw \in Switches : \E j \in DOMAIN StatsOrder :
          Free("t1") /\ ops < MaxOps /\ request_conn(sw, StatsOrder[j])
    \/ Free("t1") /\ ops < MaxOps /\ StartReply("t1")
    \/ _listen("t1")
    \/ listen("t1")
    \/ get_or_create_rrd("t1")
    \/ create_rrd_lock("t1")
    \/ create_rrd("t1")
    \/ update_lock("t1")
    \/ update("t1")

SpecRequest == InitRequest /\ [][NextRequest]_vars

(* Concurrent callers of the store under a fair scheduler: every thread
   runs one operation, the updates with explicit time stamps included
   (rrdtool.update refuses a stale one), and a thread that can take a step
   eventually takes one. *)
NextLock ==
    \/ \E t \in Threads : th[t].pc = "idle" /\ StartUpdate(t, {PortKey}, TRUE)
    \/ \E t \in Threads : th[t].pc = "idle" /\ StartFetch(t, FALSE)
    \/ \E t \in Threads : th[t].pc = "idle" /\ StartFetchLatest(t)
    \/ \E t \in Threads : StoreStep(t)
    \/ Tick

SpecLock ==
    Init /\ [][NextLock]_vars /\ \A t \in Threads : WF_vars(StoreStep(t))

(* The REST calls, one caller, with updates of the series of port 1 in
   between and the clock advancing *)
NextApi ==
    \/ ApiFree("t1") /\ ops < MaxOps /\ StartUpdate("t1", {PortKey}, FALSE)
    \/ ApiFree("t1") /\ ops < MaxOps /\ get_stats("t1", CtlViews)
    \/ ApiFree("t1") /\ ops < MaxOps /\ get_list("t1")
    \/ get_or_create_rrd("t1")
    \/ create_rrd_lock("t1")
    \/ create_rrd("t1")
    \/ update_lock("t1")
    \/ update("t1")
    \/ fetch_exists("t1")
    \/ fetch_lock("t1")
    \/ fetch("t1")
    \/ fetch_latest("t1")
    \/ get_points("t1")
    \/ _get_latest_stats("t1")
    \/ Tick

SpecApi == Init /\ [][NextApi]_vars

(* The range queries on a switch the controller knows, with both
   interfaces and their speeds, between updates of the series of port 1 *)
FullViews ==
    {c \in CtlViews :
        c.known /\ c.ifaces = <<1, 2>> /\ \A p \in Ports : ~IsNone(c.speed[p])}

NextShape ==
    \/ ApiFree("t1") /\ ops < MaxOps /\ StartUpdate("t1", {PortKey}, FALSE)
    \/ ApiFree("t1") /\ ops < MaxOps /\ get_stats("t1", FullViews)
    \/ get_or_create_rrd("t1")
    \/ create_rrd_lock("t1")
    \/ create_rrd("t1")
    \/ update_lock("t1")
    \/ update("t1")
    \/ fetch_exists("t1")
    \/ fetch_lock("t1")
    \/ fetch("t1")
    \/ get_points("t1")
    \/ Tick

SpecShape == Init /\ [][NextShape]_vars

----------------------------------------------------------------------------
(* Properties *)

Rrd(f) == get_rrd(f.app, f.index)
Declared(f) == Range(data_sources(f.app))
Ended(t, op) == th[t].op = op /\ th[t].pc = "done"

(* C1: RRD.fetch raises FileNotFoundError for every key nothing was ever
   written for, whatever start, end and n_points are, and gets to rrdtool
   (first, fetch) or returns a result only for a key whose file exists. *)
C1_FetchNotFound ==
    \A t \in Threads :
        th[t].op = "fetch" =>
            /\ th[t].pc = "done" /\ Rrd(th[t]) \notin hist.stored
                   => th[t].result.k = "FileNotFoundError"
            /\ th[t].pc \in {"first_lock", "first_in", "f_lock", "f_in"}
                   => Rrd(th[t]) \in files
            /\ th[t].pc = "done" /\ th[t].result.k = "ok"
                   => Rrd(th[t]) \in files

(* C2: fetch_latest returns the empty mapping (no counter at all) exactly
   when no series was ever created for the key; otherwise the mapping has
   the declared counters. *)
C2_LatestEmptyIffNeverCreated ==
    \A t \in Threads :
        Ended(t, "fetch_latest") =>
            /\ th[t].result.k = "ok"
            /\ th[t].result.ret = <<>> <=> hist.created[Rrd(th[t])] = 0
            /\ th[t].result.ret # <<>>
                   => DOMAIN th[t].result.ret = Declared(th[t])

(* fetch_latest returned {} for a key without a series, after a series was
   created for another key. *)
C2_Witness ==
    \E t \in Threads :
        /\ Ended(t, "fetch_latest")
        /\ th[t].result.ret = <<>>
        /\ hist.created[Rrd(th[t])] = 0
        /\ \E p \in Paths : hist.created[p] > 0

(* A row with a value in it *)
NonNull(row) == \E j \in DOMAIN row : ~IsNone(row[j])
(* A row with every value in it *)
Full(row) == \A j \in DOMAIN row : ~IsNone(row[j])

(* The times of the series' rows that have a value and are newer than
   min_tstamp *)
Fresh(r, min_tstamp) ==
    {b \in BucketTimes : b > min_tstamp /\ NonNull(r.rows[b])}

(* C3: for a key whose series exists and has no non-null row newer than
   now - 2 * STATS_INTERVAL, fetch_latest returns every declared counter,
   each 0. *)
C3_LatestZeroFill ==
    \A t \in Threads :
        /\ Ended(t, "fetch_latest")
        /\ Rrd(th[t]) \in files
        /\ Fresh(rrds[Rrd(th[t])], th[t].min_tstamp) = {}
        => th[t].result.ret = [c \in Declared(th[t]) |-> Num(0)]

(* fetch_latest returned zeros for a series whose only rows with values
   are too old. *)
C3_Witness ==
    \E t \in Threads :
        /\ Ended(t, "fetch_latest")
        /\ Rrd(th[t]) \in files
        /\ Fresh(rrds[Rrd(th[t])], th[t].min_tstamp) = {}
        /\ \E b \in BucketTimes : Full(rrds[Rrd(th[t])].rows[b])
        /\ th[t].result.ret = [c \in Declared(th[t]) |-> Num(0)]

(* The fetched rows that are non-null (every value) and newer than
   min_tstamp *)
Qualifying(f) ==
    {i \in DOMAIN f.fetched.rows :
        Full(f.fetched.rows[i]) /\ f.fetched.tstamps[i] > f.min_tstamp}

Newest(f) ==
    CHOOSE i \in Qualifying(f) :
        \A j \in Qualifying(f) : f.fetched.tstamps[j] <= f.fetched.tstamps[i]

SameRow(ret, cols, row) ==
    \A j \in DOMAIN cols : SameValue(ret[cols[j]], row[j])

(* C4: when several fetched rows are non-null and newer than
   now - 2 * STATS_INTERVAL, fetch_latest returns the values of the most
   recent of them. *)
C4_LatestIsMostRecent ==
    \A t \in Threads :
        Ended(t, "fetch_latest") /\ Cardinality(Qualifying(th[t])) >= 2
        => SameRow(th[t].result.ret, th[t].fetched.cols,
                   th[t].fetched.rows[Newest(th[t])])

(* C7: RRD.update raises whenever the counter names supplied differ from
   the declared ones (one missing, or an undeclared one supplied), and
   writes a row only when they are the same. *)
C7_UpdateNeedsExactCounters ==
    \A t \in Threads :
        Ended(t, "update") /\ DOMAIN th[t].ds_values # Declared(th[t])
        => th[t].result.k = "KeyError"

(* C5: get_or_create_rrd is atomic: however concurrent update calls for a
   new key interleave, its file is created once, and no file that already
   holds an update is created again (which destroys the update). *)
C5_CreatedOnce ==
    /\ \A p \in Paths : hist.created[p] <= 1
    /\ hist.lost = {}

(* C6: at any time at most one thread is inside an rrdtool call (create,
   update, first, fetch), whatever the keys and the RRD instances, and it
   holds the lock. *)
C6_MutualExclusion ==
    /\ Cardinality({t \in Threads : Inside(t)}) <= 1
    /\ \A t \in Threads : Inside(t) => rrd_lock = t

(* A thread is inside an rrdtool call of one RRD instance while another
   waits for the lock with a file of the other instance. *)
C6_Witness ==
    \E t, u \in Threads :
        /\ Inside(t)
        /\ th[u].pc \in {"c_lock", "u_lock", "first_lock", "f_lock"}
        /\ th[t].app # th[u].app

(* C8: a reply of a kind that has no collector is logged and dropped
   without an exception, in both dialects, and no collector is called. *)
C8_UnknownKindDropped ==
    \A t \in Threads :
        Ended(t, "reply") /\ th[t].ev.kind \notin {OFPST_PORT, OFPST_FLOW}
        => th[t].result.k = "ok" /\ th[t].calls = <<>>

(* The collector registered for a kind *)
Registered(kind) == IF kind = OFPST_PORT THEN "PortStats" ELSE "FlowStats"

Dispatched(t) == th[t].op = "reply" /\ th[t].pc # "l_dispatch"

(* C9: for a reply of a registered kind the dispatcher calls listen once,
   on the collector registered under the kind, with the switch of the
   reply's source and the reply's items, and calls no other collector;
   before that, and for other kinds, nothing is called. *)
C9_DispatchToRegistered ==
    \A t \in Threads :
        th[t].calls =
            IF Dispatched(t) /\ th[t].ev.kind \in {OFPST_PORT, OFPST_FLOW}
            THEN <<[stats |-> Registered(th[t].ev.kind),
                    switch |-> th[t].ev.switch,
                    stats_list |-> th[t].ev.body]>>
            ELSE <<>>

(* A flow reply of the second dialect was dispatched to FlowStats, whose
   listen is updating the store. *)
C9_Witness ==
    \E t \in Threads :
        /\ Dispatched(t)
        /\ th[t].ev.kind = OFPST_FLOW /\ th[t].ev.dialect = "v0x04"
        /\ th[t].pc = "u_in"
        /\ th[t].calls[1].stats = "FlowStats"

(* The requests of the current round, in the order sent *)
RECURSIVE RoundRequests(_)
RoundRequests(i) ==
    IF i = 0 THEN <<>>
    ELSE IF msg_out[i].round = poll.round
    THEN Append(RoundRequests(i - 1),
                <<msg_out[i].destination, msg_out[i].message.kind>>)
    ELSE RoundRequests(i - 1)

(* What a round sends for the switches from the i-th on: port, then flow,
   for each switch that is connected and speaks version 1 *)
RECURSIVE Expected(_)
Expected(i) ==
    IF i > Len(SwitchOrder) THEN <<>>
    ELSE (IF conn[SwitchOrder[i]] = Established(1)
          THEN <<<<SwitchOrder[i], OFPST_PORT>>, <<SwitchOrder[i], OFPST_FLOW>>>>
          ELSE <<>>) \o Expected(i + 1)

RoundOver == poll.round > 0 /\ poll.pc \in {"sleep", "raised"}

SelectSeqOf(seq, S) ==
    LET keep(x) == x[1] \in S IN SelectSeq(seq, keep)

(* C10: in each polling round, every switch that is connected and speaks
   version 1 gets one request per collector, port then flow, the switches
   in the order of the controller's collection, and the other switches
   get none (the switches whose connection changed during the round are
   left out of the comparison). *)
C10_RoundRequests ==
    RoundOver =>
        SelectSeqOf(RoundRequests(Len(msg_out)), Switches \ poll.touched)
            = SelectSeqOf(Expected(1), Switches \ poll.touched)

(* The number of requests of the current round for a switch and a kind *)
RequestsFor(sw, kind) ==
    Cardinality({i \in DOMAIN msg_out :
                    /\ msg_out[i].round = poll.round
                    /\ msg_out[i].destination = sw
                    /\ msg_out[i].message.kind = kind})

(* C11: a failure of one switch during a round (its connection dropped
   between the liveness test and the request) does not stop the round:
   execute does not raise, and when the round is over every switch that
   was connected with version 1 all along has its request of each kind. *)
C11_FailureIsolation ==
    /\ poll.pc # "raised"
    /\ RoundOver =>
         \A sw \in Switches \ poll.touched :
             conn[sw] = Established(1) =>
                 \A j \in DOMAIN StatsOrder :
                     RequestsFor(sw, StatsOrder[j]) = 1

ApiEnded(t, kind) == th[t].pc = "a_done" /\ th[t].api.kind = kind

(* C12: a port range query (get_stats) always ends with a response and
   never raises: the 404 response when the key has no series, and a
   response with the data when it has one, whether or not the controller
   knows the switch or the interface. *)
C12_GetStatsResponds ==
    \A t \in Threads :
        ApiEnded(t, "get_stats") =>
            /\ th[t].result.k = "ok"
            /\ th[t].api.status =
                   IF Rrd(th[t]) \in files THEN "200" ELSE "404"

(* C13: get_latest over the ports of a switch the controller knows never
   fails and returns one mapping per interface of the switch, in their
   order, whether or not an interface has a series and whether or not its
   speed is known. *)
C13_GetListPerInterface ==
    \A t \in Threads :
        ApiEnded(t, "get_list") /\ th[t].api.known =>
            /\ th[t].result.k = "ok"
            /\ Len(th[t].api.list) = Len(th[t].api.ifaces)
            /\ \A j \in DOMAIN th[t].api.list :
                   th[t].api.list[j].port = th[t].api.ifaces[j]

(* The update of the frame f carries a time before the last update of its
   series. *)
Stale(f) ==
    /\ ~IsNone(f.tstamp)
    /\ Rrd(f) \in hist.stored
    /\ f.tstamp[1] < rrds[Rrd(f)].last_up

(* C14: an update whose time precedes the last recorded time of its
   series is dropped: rrdtool.update is reached, the series is left as it
   was, and the update call returns without raising. *)
C14_StaleUpdateDropped ==
    [][\A t \in Threads :
          th[t].pc = "u_in" /\ Stale(th[t]) /\ th'[t].pc # "u_in"
          => rrds' = rrds /\ th'[t].result.k = "ok"]_vars

(* The keys of the items of the reply of the frame f *)
ItemKeys(f) == [i \in DOMAIN f.ev.body |-> <<f.ev.switch, f.ev.body[i]>>]

(* C15: when a port or flow reply has been handled, RRD.update was called
   once for every item of the reply, in their order, with the key
   (switch id, port number or flow id), whether the controller has the
   interface or flow object, lacks it, or the mirroring step failed. *)
C15_UpdatePerItem ==
    \A t \in Threads :
        Ended(t, "reply") /\ th[t].ev.kind \in {OFPST_PORT, OFPST_FLOW}
        => th[t].updates = ItemKeys(th[t])

(* The steps of the archives: 1, 2, 4, 8, 15, 30 minutes; 1, 2, 4, 8, 12
   hours; 1, 2, 3, 6, 10, 15 days *)
ArchiveSteps ==
    <<"1m", "2m", "4m", "8m", "15m", "30m", "1h", "2h", "4h", "8h", "12h",
      "1d", "2d", "3d", "6d", "10d", "15d">>

(* C16: every series is created with exactly one AVERAGE archive for each
   of the 17 steps, in their order, all with the same retention, and no
   other archive. *)
C16_ArchiveList ==
    \A p \in files :
        /\ Len(rrds[p].rra) = Len(ArchiveSteps)
        /\ \A i \in DOMAIN rrds[p].rra :
              /\ rrds[p].rra[i].cf = "AVERAGE"
              /\ rrds[p].rra[i].steps = ArchiveSteps[i]
              /\ rrds[p].rra[i].rows = rrds[p].rra[1].rows

(* The number of request events sent to a switch for a kind *)
EventsFor(sw, kind) ==
    Cardinality({i \in DOMAIN msg_out :
                    /\ msg_out[i].destination = sw
                    /\ msg_out[i].message.kind = kind})

(* The number of request calls made for a switch and a kind *)
CallsFor(sw, kind) ==
    Cardinality({i \in DOMAIN hist.requested :
                    hist.requested[i] = <<sw, kind>>})

(* C17: after any sequence of request and listen calls, the number of
   request events sent for a switch and a kind is the number of request
   calls made for them: no request is held back because an earlier one
   has no reply yet. *)
C17_RequestNeverSuppressed ==
    \A sw \in Switches : \A j \in DOMAIN StatsOrder :
        EventsFor(sw, StatsOrder[j]) = CallsFor(sw, StatsOrder[j])

(* Two port requests were made for s1 with no reply handled in between
   or before, and both were sent. *)
C17_Witness ==
    /\ CallsFor("s1", OFPST_PORT) = 2
    /\ EventsFor("s1", OFPST_PORT) = 2
    /\ Len(msg_out) = 2
    /\ th["t1"].op = "none"

(* C18: the rate stored for two consecutive samples of a counter is
   (later - earlier) / elapsed seconds when the counter did not decrease,
   and null (not negative, not a wrap-around value) when it decreased. *)
C18_RateDerivation ==
    [][\A t \in Threads :
          LET f == th[t]
              r == rrds[Rrd(f)]
              b == Floor(now)
          IN /\ f.pc = "u_in" /\ th'[t].pc # "u_in"
             /\ IsNone(f.tstamp)
             /\ ~IsNone(r.last)
             /\ Floor(r.last_up) < b
             => \A i \in DOMAIN r.ds :
                   LET prev == r.last[1][i]
                       cur == update_data(f)[i]
                       v == rrds'[Rrd(f)].rows[b][i]
                   IN IF cur >= prev
                      THEN /\ ~IsNone(v)
                           /\ v[1] * (now - r.last_up) = (cur - prev) * v[2]
                      ELSE IsNone(v)]_vars

(* A series holds a row in which the first counter, which went from 1 to
   0, has no rate while the second, which did not decrease, has one. *)
C18_Witness ==
    \E p \in files : \E b \in BucketTimes :
        /\ ~IsNone(rrds[p].last)
        /\ rrds[p].last[1][1] = 0
        /\ b = Floor(rrds[p].last_up)
        /\ IsNone(rrds[p].rows[b][1])
        /\ ~IsNone(rrds[p].rows[b][2])

(* The window of the fetch of the frame f, in seconds *)
Window(f) == f.end.v - f.start.v

(* C19: when fetch is called with n_points and a window of W = end - start
   seconds, W >= n_points, it asks rrdtool for a step of at most
   W / n_points, whether start and end are ints or the strings of a query;
   the shift of one second leaves W as it is. *)
C19_ResolutionSelection ==
    \A t \in Threads :
        LET f == th[t]
        IN /\ f.op = "fetch" /\ f.pc = "f_lock"
           /\ ~IsNone(f.n_points)
           /\ f.start.k \in {"int", "str"} /\ f.end.k \in {"int", "str"}
           /\ f.start.k = f.end.k
           /\ Window(f) >= f.n_points[1]
           => /\ ~IsNone(f.res)
              /\ f.res[1] * f.n_points[1] <= Window(f)

(* The fetch of the frame f was given an end before its start. *)
Backwards(f) ==
    /\ f.start.k \in {"int", "str"} /\ f.end.k \in {"int", "str"}
    /\ f.end.v < f.start.v

(* C20: for a key whose series exists, fetch returns a result for every
   combination of omitted and supplied start, end and n_points (the end
   not before the start). *)
C20_FetchArgumentsOptional ==
    \A t \in Threads :
        Ended(t, "fetch") /\ th[t].api.kind = "none"
        /\ Rrd(th[t]) \in files /\ ~Backwards(th[t])
        => th[t].result.k = "ok"

(* The update of the frame f does not supply every declared counter. *)
Missing(f) == ~(Declared(f) \subseteq DOMAIN f.ds_values)

(* C21: an update that fails because a declared counter is missing from
   the supplied values leaves the store unchanged: none of its steps
   creates a series file or writes a row. *)
C21_FailedUpdateNoEffect ==
    [][\A t \in Threads :
          /\ th[t].op = "update" /\ ~Free(t) /\ Missing(th[t])
          /\ th'[t] # th[t]
          => files' = files /\ rrds' = rrds]_vars

(* The thread t is inside a query of the store. *)
Querying(t) == th[t].op \in {"fetch", "fetch_latest"} /\ ~Free(t)

(* C22: queries never create series: no step of fetch or fetch_latest
   (get_rrd, the path computation, is part of both) changes the set of
   series files, the folders or the content of a series, whether the key
   has a series or not; hence a series exists for a key only if an update
   was issued for that key. *)
C22_QueriesNeverCreate ==
    [][/\ \A t \in Threads :
             Querying(t) /\ th'[t] # th[t]
             => files' = files /\ dirs' = dirs /\ rrds' = rrds
       /\ files' \subseteq hist'.written]_vars

(* A fetch_latest has ended for a key without a series while another key
   has one, and the key has none afterwards either. *)
C22_Witness ==
    /\ Ended("t1", "fetch_latest")
    /\ Rrd(th["t1"]) \notin files
    /\ Rrd(th["t1"]) \notin hist.written
    /\ files # {}

(* The thread t is at a `with settings.rrd_lock:` and has not entered. *)
Waiting(t) == th[t].pc \in {"c_lock", "u_lock", "first_lock", "f_lock"}

(* C23: the store-wide lock is held for exactly one storage operation at
   a time. A thread holds it only while inside one rrdtool call, never
   while it is at the entry of a `with` (no nested acquisition: a fetch
   with start='first' has released it after rrdtool.first when it comes
   to rrdtool.fetch) and never after its operation has ended; the step
   that makes the rrdtool call releases it, whether the call succeeds or
   fails; and every thread waiting for it eventually holds it. *)
C23_LockDiscipline ==
    /\ [](\A t \in Threads : rrd_lock = t <=> Inside(t))
    /\ [][\A t \in Threads :
             Inside(t) /\ th'[t] # th[t]
             => rrd_lock' = NoThread /\ \lnot Inside(t)']_vars
    /\ \A t \in Threads : Waiting(t) ~> Inside(t)

(* A thread is inside rrdtool.first of a fetch with start='first' while
   the other waits for the lock. *)
C23_Witness ==
    \E t \in Threads : \E u \in Threads \ {t} :
        th[t].pc = "first_in" /\ rrd_lock = t /\ Waiting(u)

(* The positions of the fetched rows that have a non-null value *)
NonNullRows(fetched) ==
    {i \in DOMAIN fetched.rows :
        \E c \in DOMAIN fetched.rows[i] : ~IsNone(fetched.rows[i][c])}

(* The k-th of the positions K, in increasing order *)
Nth(K, k) == CHOOSE i \in K : Cardinality({j \in K : j <= i}) = k

(* C24: range-response shaping (_fetch followed by _remove_null) does not
   raise, and in its result the timestamps list and every counter list
   have the same length, a fetched row is removed if and only if all of
   its counter values are null, and the kept rows keep their timestamps,
   their values and their relative order. *)
C24_RangeShaping ==
    [][\A t \in Threads :
          LET f == th[t]
              g == th'[t]
              p == g.api.points
              K == NonNullRows(f.fetched)
          IN /\ f.pc = "done" /\ f.api.kind = "get_stats"
             /\ f.result.k = "ok" /\ g.pc = "a_done"
             => /\ g.result.k \notin {"IndexError", "NameError"}
                /\ g.api.status = "200"
                   => /\ Len(p.timestamps) = Cardinality(K)
                      /\ DOMAIN p.data = Range(f.fetched.cols)
                      /\ \A j \in DOMAIN f.fetched.cols :
                            LET lst == p.data[f.fetched.cols[j]]
                            IN /\ Len(lst) = Cardinality(K)
                               /\ \A k \in 1..Cardinality(K) :
                                     lst[k] = f.fetched.rows[Nth(K, k)][j]
                      /\ \A k \in 1..Cardinality(K) :
                            p.timestamps[k] = f.fetched.tstamps[Nth(K, k)]]_vars

(* A range response was built in which a row with a null and a non-null
   value was kept, next to a row without nulls; the all-null rows of the
   fetched window (those after the last update, at least) are gone. *)
C24_Witness ==
    \E t \in Threads :
        LET p == th[t].api.points
        IN /\ th[t].pc = "a_done" /\ th[t].api.status = "200"
           /\ th[t].api.kind = "get_stats"
           /\ Len(p.timestamps) = 2
           /\ \E k \in DOMAIN p.timestamps :
                 /\ IsNone(p.data["rx_bytes"][k])
                 /\ ~IsNone(p.data["tx_bytes"][k])
           /\ \E k \in DOMAIN p.timestamps :
                 \A c \in Range(p.cols) : ~IsNone(p.data[c][k])

(* C25: when the aggregate collector's listen has ended, it has returned,
   and RRD.update was called once for every item of the reply with the
   key (switch id), on the store of the aggregate kind ('aggr') and with
   the counters packet_count, byte_count and flow_count. *)
C25_AggregateForwards ==
    \A t \in Threads :
        Ended(t, "aggregate")
        => /\ th[t].result.k = "ok"
           /\ th[t].updates =
                 [i \in DOMAIN th[t].ev.body |-> <<th[t].ev.switch>>]
           /\ th[t].ev.body # <<>>
              => /\ th[t].app = "aggr"
                 /\ DOMAIN th[t].ds_values = Range(AggrDS)

====
